---- MODULE Spec2Model ----
(***************************************************************************)
(* Tilt hydrometer scanner (tilt.py) and its Flask dashboard               *)
(* (tilt_dashboard.py): the beacon decoder, the CoreBluetooth delegate     *)
(* callback that ingests advertisements into discovered_devices, history   *)
(* and mead.csv, and the presentation readers that run concurrently.       *)
(*                                                                         *)
(* Python values are modelled as follows.                                  *)
(*   bytes        a sequence of 0..255                                     *)
(*   str          a sequence of one-character strings (hex renderings)     *)
(*   None         the record None; an int that may be None is Some(v)      *)
(*   float        an exact fraction Frac(num, den)                         *)
(*   dict         an insertion-ordered sequence of <<key, value>> pairs    *)
(*   deque        a sequence, oldest first                                 *)
(***************************************************************************)
EXTENDS Integers, Sequences, FiniteSets, TLC

VARIABLES
    pending,             \* advertisements CoreBluetooth has queued for the delegate
    n_arrived,           \* how many advertisements the scanner has delivered so far
    pc,                  \* position of the delegate callback
    pid,                 \* callback local: peripheral.identifier()
    data_bytes,          \* callback local: bytes(manufacturer_data)
    tilt_info,           \* callback local: result of parse_tilt_advertisement
    rssi_dbm,            \* callback local: normalised RSSI
    need_newline,        \* append_to_mead_csv local
    line,                \* append_to_mead_csv local: the formatted CSV line
    discovered_devices,  \* module global of tilt.py
    history,             \* module global of tilt.py
    history_lock,        \* _history_lock: "free" or its holder
    csv_lock,            \* _csv_lock: "free" or its holder
    csv_file,            \* mead.csv: NoFile or its content
    now,                 \* the wall clock, in milliseconds
    escaped,             \* an exception has left the delegate callback
    rpc,                 \* position of the presentation reader
    r_items,             \* reader local: list(history.items()), as the keys of its pairs
    r_size,              \* reader local: the dict size the iterator was created with
    r_i,                 \* reader local: position in the iteration
    r_color,             \* reader local: the color read for the current entry
    r_out,               \* reader local: what the reader has produced so far
    r_start,             \* history of the read: the dict as it was when the read began
    appended,            \* history of the calls: every sample appended, per device
    accepted,            \* history of the calls: the accepted advertisements, in order
    log_failed,          \* history of the calls: an append to mead.csv has failed
    ble_started,         \* module global _ble_started of tilt.py
    delegate,            \* module global _delegate of tilt.py
    manager,             \* module global _manager of tilt.py
    spc,                 \* position of the caller of start_ble_scanner
    q,                   \* start_ble_scanner local: the dispatch queue
    n_starts,            \* how many calls of start_ble_scanner have been made
    created,             \* history of the calls: the objects start_ble_scanner created
    workers              \* the threads that run the callback's body at the same time

vars == <<pending, n_arrived, pc, pid, data_bytes, tilt_info, rssi_dbm,
          need_newline, line, discovered_devices, history, history_lock,
          csv_lock, csv_file, now, escaped, rpc, r_items, r_size, r_i, r_color,
          r_out, r_start, appended, accepted, log_failed, ble_started,
          delegate, manager, spc, q, n_starts, created, workers>>

----------------------------------------------------------------------------
(* Python values *)

None == [none |-> TRUE]

Some(v) == [some |-> v]

Frac(n, d) == [num |-> n, den |-> d]

DictHas(d, k) == \E i \in 1..Len(d) : d[i][1] = k

DictGet(d, k, default) ==
    IF DictHas(d, k)
    THEN d[CHOOSE i \in 1..Len(d) : d[i][1] = k][2]
    ELSE default

DictSet(d, k, v) ==
    IF DictHas(d, k)
    THEN [i \in 1..Len(d) |-> IF d[i][1] = k THEN <<k, v>> ELSE d[i]]
    ELSE Append(d, <<k, v>>)

DictKeys(d) == {d[i][1] : i \in 1..Len(d)}

HexDigits == <<"0","1","2","3","4","5","6","7","8","9","a","b","c","d","e","f">>

RECURSIVE hexlify(_)
hexlify(bs) ==
    IF bs = <<>> THEN <<>>
    ELSE <<HexDigits[(Head(bs) \div 16) + 1], HexDigits[(Head(bs) % 16) + 1]>>
         \o hexlify(Tail(bs))

UpperChar(c) ==
    CASE c = "a" -> "A" [] c = "b" -> "B" [] c = "c" -> "C"
      [] c = "d" -> "D" [] c = "e" -> "E" [] c = "f" -> "F"
      [] OTHER -> c

upper(s) == [i \in 1..Len(s) |-> UpperChar(s[i])]

\* int.from_bytes(bs, byteorder='little')
from_bytes_little(bs) == bs[2] * 256 + bs[1]

from_bytes_big(bs) == bs[1] * 256 + bs[2]

unpack_b(b) == IF b < 128 THEN b ELSE b - 256

----------------------------------------------------------------------------
(* parse_tilt_advertisement, tilt.py 129-192 *)

color_map ==
    (<<"A","4","9","5","B","B","1","0","C","5","B","1","4","B","4","4","B","5","1","2","1","3","7","0","F","0","2","D","7","4","D","E">> :> "Red") @@
    (<<"A","4","9","5","B","B","2","0","C","5","B","1","4","B","4","4","B","5","1","2","1","3","7","0","F","0","2","D","7","4","D","E">> :> "Green") @@
    (<<"A","4","9","5","B","B","3","0","C","5","B","1","4","B","4","4","B","5","1","2","1","3","7","0","F","0","2","D","7","4","D","E">> :> "Black") @@
    (<<"A","4","9","5","B","B","4","0","C","5","B","1","4","B","4","4","B","5","1","2","1","3","7","0","F","0","2","D","7","4","D","E">> :> "Purple") @@
    (<<"A","4","9","5","B","B","5","0","C","5","B","1","4","B","4","4","B","5","1","2","1","3","7","0","F","0","2","D","7","4","D","E">> :> "Orange") @@
    (<<"A","4","9","5","B","B","6","0","C","5","B","1","4","B","4","4","B","5","1","2","1","3","7","0","F","0","2","D","7","4","D","E">> :> "Blue") @@
    (<<"A","4","9","5","B","B","7","0","C","5","B","1","4","B","4","4","B","5","1","2","1","3","7","0","F","0","2","D","7","4","D","E">> :> "Yellow") @@
    (<<"A","4","9","5","B","B","8","0","C","5","B","1","4","B","4","4","B","5","1","2","1","3","7","0","F","0","2","D","7","4","D","E">> :> "Pink")

uuid_str_lower(uuid_bytes) == hexlify(uuid_bytes)

uuid_str_of(uuid_bytes) == upper(hexlify(uuid_bytes))

color_of(uuid_str) ==
    IF uuid_str \in DOMAIN color_map THEN color_map[uuid_str] ELSE "Unknown"

battery_weeks_no_sentinel(tx_raw) ==
    IF 0 <= tx_raw /\ tx_raw <= 255 THEN Some(tx_raw) ELSE None

battery_weeks_of(tx_raw) ==
    LET battery_weeks == IF 0 <= tx_raw /\ tx_raw <= 152 THEN Some(tx_raw) ELSE None
    IN  IF tx_raw = 197 THEN None ELSE battery_weeks

prefix_unchecked(bs) == FALSE

bad_prefix_company_only(bs) == SubSeq(bs, 1, 2) # <<76, 0>>

bad_prefix(bs) == SubSeq(bs, 1, 2) # <<76, 0>> \/ SubSeq(bs, 3, 4) # <<2, 21>>

parse_tilt_advertisement(bs) ==
    IF Len(bs) < 25 THEN None
    ELSE IF bad_prefix(bs) THEN None
    ELSE LET uuid_bytes  == SubSeq(bs, 5, 20)
             major       == SubSeq(bs, 21, 22)
             minor       == SubSeq(bs, 23, 24)
             tx_byte     == bs[25]
             temperature == from_bytes_big(major)
         IN  [color         |-> color_of(uuid_str_of(uuid_bytes)),
              temperature   |-> temperature,
              temperature_c |-> Frac((temperature - 32) * 5, 9),
              gravity       |-> Frac(from_bytes_big(minor), 1000),
              battery_weeks |-> battery_weeks_of(tx_byte),
              tx_raw        |-> tx_byte,
              tx_dbm        |-> unpack_b(tx_byte)]

----------------------------------------------------------------------------
(* Inputs of the decoder: payloads cut to every interesting length, with    *)
(* every prefix byte wrong in turn, known and unknown identity tokens, and  *)
(* every value of the tx byte.                                              *)

MaxExtra == 1

ApplePrefix == <<76, 0, 2, 21>>

Prefixes == {ApplePrefix, <<77, 0, 2, 21>>, <<76, 1, 2, 21>>,
             <<76, 0, 3, 21>>, <<76, 0, 2, 22>>}

TiltUuid(i) == <<164, 149, 187, 16 * i, 197, 177, 75, 68,
                 181, 18, 19, 112, 240, 45, 116, 222>>

TiltColors == <<"Red", "Green", "Black", "Purple", "Orange", "Blue", "Yellow", "Pink">>

Uuids == {TiltUuid(i) : i \in 0..9}
         \cup {[TiltUuid(1) EXCEPT ![16] = 223], [i \in 1..16 |-> 0]}

Majors == {<<0, 70>>, <<0, 0>>, <<255, 255>>}

Minors == {<<3, 232>>, <<0, 0>>, <<255, 255>>}

TxEdge == {0, 90, 127, 128, 152, 153, 196, 197, 198, 255}

Beacon(prefix, uuid, major, minor, tx) == prefix \o uuid \o major \o minor \o <<tx>>

Cut(bs, n) == SubSeq(bs \o [i \in 1..MaxExtra |-> 200], 1, n)

Lengths == {0, 3, 24} \cup (25..(25 + MaxExtra))

DecodeInputs ==
    {Cut(Beacon(p, u, ma, mi, tx), n) :
        p \in Prefixes, u \in Uuids, ma \in Majors, mi \in Minors,
        tx \in TxEdge, n \in Lengths}
    \cup {Beacon(ApplePrefix, TiltUuid(1), <<0, 70>>, <<3, 232>>, tx) : tx \in 0..255}

----------------------------------------------------------------------------
(* Advertisements the scanner delivers to the delegate callback *)

MaxAds == 2

MaxPending == 1

MaxTicks == 1

Pids == {"p1", "p2"}

BeaconA == Beacon(ApplePrefix, TiltUuid(1), <<0, 70>>, <<3, 232>>, 90)

BeaconB == Beacon(ApplePrefix, TiltUuid(9), <<0, 68>>, <<4, 26>>, 197)

ForeignBeacon == Beacon(<<76, 0, 2, 22>>, TiltUuid(1), <<0, 70>>, <<3, 232>>, 90)

ManufacturerData == {None, Some(SubSeq(BeaconA, 1, 24)), Some(ForeignBeacon),
                     Some(BeaconA), Some(BeaconB)}

Rssis == {-60, 127}

\* "p1" sends every payload, and BeaconA also with the RSSI that stands for
\* "not available"; "p2" sends BeaconA.  That covers one device with two
\* payloads, two devices with the same payload and with different ones, and
\* every way an advertisement is dropped (the device is not looked at then).
Advertisements ==
    {ad \in [peripheral : Pids, kCBAdvDataManufacturerData : ManufacturerData,
             RSSI : Rssis] :
        /\ ad.peripheral = "p2" => ad.kCBAdvDataManufacturerData = Some(BeaconA)
        /\ ad.RSSI = 127 => /\ ad.kCBAdvDataManufacturerData = Some(BeaconA)
                            /\ ad.peripheral = "p1"}

----------------------------------------------------------------------------
(* mead.csv *)

NoFile == [exists |-> FALSE]

File(content) == [exists |-> TRUE, content |-> content]

NL == [nl |-> TRUE]

Text(s) == [text |-> s]

Row(r) == [row |-> r]

\* The header text; its degree sign is left out of the string.
HeaderLine == Text("Timepoint,SG,Temp (C)")

strftime(fmt, t) == [fmt |-> fmt, sec |-> t \div 1000]

RoundDiv(n, d) == IF 2 * (n % d) >= d THEN (n \div d) + 1 ELSE n \div d

format_fixed(x, digits) ==
    LET scale == IF digits = 3 THEN 1000 ELSE 10
    IN  [digits |-> digits, scaled |-> RoundDiv(x.num * scale, x.den)]

csv_line(timepoint_dt, gravity, temp_c) ==
    [timepoint |-> strftime("%m/%d/%Y %H:%M:%S", timepoint_dt),
     sg        |-> format_fixed(gravity, 3),
     temp      |-> format_fixed(temp_c, 1)]

\* mead.csv is absent, or is left from an earlier run or an edit without its
\* final newline.
InitialFiles == {NoFile, File(<<HeaderLine>>)}

----------------------------------------------------------------------------
(* State after the modules are imported *)

NoLocals ==
    /\ pid = "-"
    /\ data_bytes = <<>>
    /\ tilt_info = None
    /\ rssi_dbm = None
    /\ need_newline = FALSE
    /\ line = None

ReaderIdle ==
    /\ rpc = "idle"
    /\ r_items = <<>>
    /\ r_size = 0
    /\ r_i = 0
    /\ r_color = "-"
    /\ r_out = <<>>
    /\ r_start = <<>>

\* tilt.py 356-358: nothing has called start_ble_scanner.
BleIdle ==
    /\ ble_started = FALSE
    /\ delegate = None
    /\ manager = None
    /\ spc = "idle"
    /\ q = None
    /\ n_starts = 0
    /\ created = <<>>

Threads == {"t1", "t2"}

\* A thread that is not inside the callback's body.
IdleWorker ==
    [pc |-> "idle", ad |-> None, tilt_info |-> None, need_newline |-> FALSE,
     line |-> None]

\* The delegate queue is serial: no other thread runs the callback's body.
NoWorkers == workers = [w \in Threads |-> IdleWorker]

Init ==
    /\ pending = <<>>
    /\ n_arrived = 0
    /\ pc = "idle"
    /\ NoLocals
    /\ discovered_devices = <<>>
    /\ history = <<>>
    /\ history_lock = "free"
    /\ csv_lock = "free"
    /\ csv_file \in InitialFiles
    /\ now = 0
    /\ escaped = FALSE
    /\ ReaderIdle
    /\ appended = <<>>
    /\ accepted = <<>>
    /\ log_failed = FALSE
    /\ BleIdle
    /\ NoWorkers

locals == <<pid, data_bytes, tilt_info, rssi_dbm, need_newline, line>>

reader == <<rpc, r_items, r_size, r_i, r_color, r_out, r_start>>

ble == <<ble_started, delegate, manager, spc, q, n_starts, created>>

shared == <<discovered_devices, history, history_lock, csv_lock, csv_file, appended>>

ClearLocals ==
    /\ pid' = "-"
    /\ data_bytes' = <<>>
    /\ tilt_info' = None
    /\ rssi_dbm' = None
    /\ need_newline' = FALSE
    /\ line' = None

----------------------------------------------------------------------------
(* The scanner and the clock *)

\* CoreBluetooth queues one delegate call per discovered advertisement.
Arrive ==
    /\ n_arrived < MaxAds
    /\ Len(pending) < MaxPending
    /\ \E ad \in Advertisements : pending' = Append(pending, ad)
    /\ n_arrived' = n_arrived + 1
    /\ UNCHANGED <<pc, locals, shared, now, escaped, reader>>
    /\ UNCHANGED <<accepted, log_failed, ble, workers>>

\* Wall-clock time passes, a second at a time.
Tick ==
    /\ now < MaxTicks * 1000
    /\ now' = now + 1000
    /\ UNCHANGED <<pending, n_arrived, pc, locals, shared, escaped, reader>>
    /\ UNCHANGED <<accepted, log_failed, ble, workers>>

----------------------------------------------------------------------------
(* centralManager_didDiscoverPeripheral_advertisementData_RSSI_, tilt.py 222-278 *)

not_manufacturer_data(m) == m = None \/ m.some = <<>>

\* The RSSI as CoreBluetooth reports it, with no sentinel.
normalize_rssi_raw(RSSI) == Some(RSSI)

\* Lines 248-253: int(RSSI), and 127 stands for "not available".
normalize_rssi(RSSI) == IF RSSI = 127 THEN None ELSE Some(RSSI)

make_record(info, rssi, bs, t) ==
    [color         |-> info.color,
     temperature   |-> info.temperature,
     temperature_c |-> info.temperature_c,
     gravity       |-> info.gravity,
     rssi          |-> rssi,
     battery_weeks |-> info.battery_weeks,
     tx_raw        |-> info.tx_raw,
     tx_dbm        |-> info.tx_dbm,
     raw_hex       |-> hexlify(bs),
     last_seen     |-> strftime("%Y-%m-%d %H:%M:%S", t)]

\* The key is removed and inserted again: an updated device moves to the end.
upsert_move_to_end(d, k, rec) ==
    Append(SelectSeq(d, LAMBDA e : e[1] # k), <<k, rec>>)

\* dict.setdefault: the record of the first advertisement stays.
upsert_setdefault(d, k, rec) == IF DictHas(d, k) THEN d ELSE DictSet(d, k, rec)

\* A field-level merge that keeps the identity fields of the stored record.
upsert_merge(d, k, rec) ==
    IF DictHas(d, k)
    THEN DictSet(d, k, [rec EXCEPT !.color = DictGet(d, k, rec).color,
                                   !.raw_hex = DictGet(d, k, rec).raw_hex])
    ELSE DictSet(d, k, rec)

upsert(d, k, rec) == DictSet(d, k, rec)

\* Lines 229-255: the delegate queue is serial, so the next call starts only
\* when the previous one has returned.  Nothing shared is touched here.
Discover ==
    /\ pc = "idle"
    /\ pending # <<>>
    /\ pending' = Tail(pending)
    /\ LET ad == Head(pending)
           manufacturer_data == ad.kCBAdvDataManufacturerData
       IN  IF not_manufacturer_data(manufacturer_data)
           THEN /\ pc' = "idle"
                /\ ClearLocals
                /\ UNCHANGED accepted
           ELSE LET info == parse_tilt_advertisement(manufacturer_data.some)
                IN  IF info # None
                    THEN /\ pc' = "upsert"
                         /\ accepted' = Append(accepted, ad)
                         /\ pid' = ad.peripheral
                         /\ data_bytes' = manufacturer_data.some
                         /\ tilt_info' = info
                         /\ rssi_dbm' = normalize_rssi(ad.RSSI)
                         /\ UNCHANGED <<need_newline, line>>
                    ELSE /\ pc' = "idle"
                         /\ ClearLocals
                         /\ UNCHANGED accepted
    /\ UNCHANGED <<n_arrived, shared, now, escaped, reader, log_failed, ble, workers>>

\* Lines 256-268: the record is built first and stored by one subscript
\* store.  No stored dict is modified afterwards, so the reference a reader
\* holds to a record is modelled by the record's value.
Upsert ==
    /\ pc = "upsert"
    /\ discovered_devices' =
           upsert(discovered_devices, pid, make_record(tilt_info, rssi_dbm, data_bytes, now))
    /\ pc' = "hist_enter"
    /\ UNCHANGED <<pending, n_arrived, locals, history, history_lock, csv_lock,
                   csv_file, appended, now, escaped, reader>>
    /\ UNCHANGED <<accepted, log_failed, ble, workers>>

----------------------------------------------------------------------------
(* _append_history, tilt.py 48-58 *)

HistoryMaxLen == 3600

\* deque.appendleft: the newest sample goes to the front.
deque_appendleft(dq, x) ==
    LET a == <<x>> \o dq
    IN  IF Len(a) > HistoryMaxLen THEN SubSeq(a, 1, HistoryMaxLen) ELSE a

\* A bounded buffer that refuses the new sample when full.
deque_append_drop_newest(dq, x) ==
    IF Len(dq) >= HistoryMaxLen THEN dq ELSE Append(dq, x)

\* deque(maxlen=3600).append: the oldest element is discarded when full.
deque_append(dq, x) ==
    LET a == Append(dq, x)
    IN  IF Len(a) > HistoryMaxLen THEN Tail(a) ELSE a

history_sample(t, temp_c, gravity) ==
    [ts |-> t, temp_c |-> temp_c, gravity |-> gravity]

\* Lines 49-53: take the lock, look the deque up, create it on first sight.
HistEnter ==
    /\ pc = "hist_enter"
    /\ history_lock = "free"
    /\ history_lock' = "ingest"
    /\ history' = IF DictHas(history, pid) THEN history ELSE DictSet(history, pid, <<>>)
    /\ pc' = "hist_append"
    /\ UNCHANGED <<pending, n_arrived, locals, discovered_devices, csv_lock,
                   csv_file, appended, now, escaped, reader>>
    /\ UNCHANGED <<accepted, log_failed, ble, workers>>

\* Lines 54-58: append the sample, stamped with the clock read here, and
\* release the lock; ret is where the caller goes on.
HistAppendTo(ret) ==
    /\ pc = "hist_append"
    /\ history_lock = "ingest"
    /\ LET sample == history_sample(now, tilt_info.temperature_c, tilt_info.gravity)
       IN  /\ history' = DictSet(history, pid,
                                 deque_append(DictGet(history, pid, <<>>), sample))
           /\ appended' = DictSet(appended, pid,
                                  Append(DictGet(appended, pid, <<>>), sample))
    /\ history_lock' = "free"
    /\ pc' = ret
    /\ UNCHANGED <<pending, n_arrived, locals, discovered_devices, csv_lock,
                   csv_file, now, escaped, reader>>
    /\ UNCHANGED <<accepted, log_failed, ble, workers>>

HistAppend == HistAppendTo("csv_header")

----------------------------------------------------------------------------
(* append_to_mead_csv and ensure_csv_header, tilt.py 273-278 and 284-327 *)

\* Lines 275-276, 303-304 and 289-292: read the clock, make sure the file
\* exists (writing the header if it does not) and format the line.
CsvHeader ==
    /\ pc = "csv_header"
    /\ csv_lock = "free"
    /\ csv_file' = IF csv_file.exists THEN csv_file ELSE File(<<HeaderLine, NL>>)
    /\ line' = csv_line(now, tilt_info.gravity, tilt_info.temperature_c)
    /\ pc' = "csv_tail"
    /\ UNCHANGED <<pending, n_arrived, pid, data_bytes, tilt_info, rssi_dbm,
                   need_newline, discovered_devices, history, history_lock,
                   csv_lock, appended, now, escaped, reader>>
    /\ UNCHANGED <<accepted, log_failed, ble, workers>>

\* The exception of a failed log write leaves the callback.
CsvRaise ==
    /\ pc \in {"csv_header", "csv_write"}
    /\ csv_lock \in {"free", "ingest"}
    /\ csv_lock' = "free"
    /\ pc' = "crashed"
    /\ escaped' = TRUE
    /\ UNCHANGED <<pending, n_arrived, locals, discovered_devices, history,
                   history_lock, csv_file, appended, now, reader>>
    /\ UNCHANGED <<accepted, log_failed, ble, workers>>

\* Lines 291-292 or 321-324 raise (disk full, permissions): the with block
\* releases the lock, line 325-327 prints and the callback returns.  Line
\* 291 either fails to create the file, or creates it and the write of the
\* header fails, which leaves the file empty.
CsvFail ==
    /\ \/ /\ pc = "csv_header" /\ csv_lock = "free" /\ ~csv_file.exists
          /\ csv_file' \in {csv_file, File(<<>>)}
       \/ /\ pc = "csv_write" /\ csv_lock = "ingest"
          /\ csv_file' = csv_file
    /\ csv_lock' = "free"
    /\ pc' = "idle"
    /\ ClearLocals
    /\ UNCHANGED <<pending, n_arrived, discovered_devices, history, history_lock,
                   appended, now, escaped, reader>>
    /\ log_failed' = TRUE
    /\ UNCHANGED <<accepted, ble, workers>>

last_is_newline(f) == Len(f.content) > 0 /\ f.content[Len(f.content)] = NL

\* Lines 305-319: take the lock and look at the last byte of the file.  A
\* failure to read it is swallowed and leaves need_newline False.
CsvTail ==
    /\ pc = "csv_tail"
    /\ csv_lock = "free"
    /\ csv_lock' = "ingest"
    /\ \/ /\ need_newline' = (Len(csv_file.content) > 0 /\ ~last_is_newline(csv_file))
          /\ UNCHANGED log_failed
       \/ /\ need_newline' = FALSE
          /\ log_failed' = TRUE
    /\ pc' = "csv_write"
    /\ UNCHANGED <<pending, n_arrived, pid, data_bytes, tilt_info, rssi_dbm, line,
                   discovered_devices, history, history_lock, csv_file,
                   appended, now, escaped, reader>>
    /\ UNCHANGED <<accepted, ble, workers>>

\* The file opened with mode 'w' instead of 'a': the line replaces the file.
CsvWriteTruncate ==
    /\ pc = "csv_write"
    /\ csv_lock = "ingest"
    /\ csv_file' = File(<<Row(line), NL>>)
    /\ csv_lock' = "free"
    /\ pc' = "idle"
    /\ ClearLocals
    /\ UNCHANGED <<pending, n_arrived, discovered_devices, history, history_lock,
                   appended, now, escaped, reader>>
    /\ UNCHANGED <<accepted, log_failed, ble, workers>>

\* Lines 321-324: append the line and release the lock.
CsvWrite ==
    /\ pc = "csv_write"
    /\ csv_lock = "ingest"
    /\ csv_file' = File(csv_file.content
                        \o (IF need_newline THEN <<NL>> ELSE <<>>)
                        \o <<Row(line), NL>>)
    /\ csv_lock' = "free"
    /\ pc' = "idle"
    /\ ClearLocals
    /\ UNCHANGED <<pending, n_arrived, discovered_devices, history, history_lock,
                   appended, now, escaped, reader>>
    /\ UNCHANGED <<accepted, log_failed, ble, workers>>

----------------------------------------------------------------------------
(* The presentation readers: print_panel (tilt.py 94-115), which the        *)
(* dashboard's index repeats inside its template (tilt_dashboard.py         *)
(* 210-212, 75), and api_history (tilt_dashboard.py 214-223).  They run on  *)
(* other threads than the delegate callback and take no lock.               *)

ingest == <<pending, n_arrived, pc, locals, shared, now, escaped, accepted, log_failed, ble, workers>>

\* Line 95: discovered_devices.items() is iterated in place; the iterator
\* remembers the size of the dict.
PanelStart ==
    /\ rpc = "idle"
    /\ rpc' = "panel"
    /\ r_size' = Len(discovered_devices)
    /\ r_start' = discovered_devices
    /\ r_i' = 0
    /\ r_out' = <<>>
    /\ r_items' = <<>>
    /\ r_color' = "-"
    /\ UNCHANGED ingest

\* Lines 95-115: the next (pid, info) pair of the live dict and its row.
PanelNext ==
    /\ rpc = "panel"
    /\ Len(discovered_devices) = r_size
    /\ r_i < r_size
    /\ r_i' = r_i + 1
    /\ r_out' = Append(r_out, discovered_devices[r_i + 1])
    /\ UNCHANGED <<rpc, r_items, r_size, r_color, r_start>>
    /\ UNCHANGED ingest

\* The iterator is exhausted and print_panel returns.
PanelReturn ==
    /\ rpc = "panel"
    /\ Len(discovered_devices) = r_size
    /\ r_i = r_size
    /\ rpc' = "idle"
    /\ r_items' = <<>>
    /\ r_size' = 0
    /\ r_i' = 0
    /\ r_color' = "-"
    /\ r_out' = <<>>
    /\ r_start' = <<>>
    /\ UNCHANGED ingest

\* RuntimeError: dictionary changed size during iteration.  Nothing in
\* refresh_panel_forever catches it, so the reader stops here.
PanelError ==
    /\ rpc = "panel"
    /\ Len(discovered_devices) # r_size
    /\ rpc' = "error"
    /\ r_items' = <<>>
    /\ r_size' = 0
    /\ r_i' = 0
    /\ r_color' = "-"
    /\ r_out' = <<>>
    /\ r_start' = <<>>
    /\ UNCHANGED ingest

\* Line 218: list(history.items()); each pair holds the deque itself.
ApiStart ==
    /\ rpc = "idle"
    /\ rpc' = "api_color"
    /\ r_items' = [i \in 1..Len(history) |-> history[i][1]]
    /\ r_start' = history
    /\ r_size' = 0
    /\ r_i' = 0
    /\ r_out' = <<>>
    /\ r_color' = "-"
    /\ UNCHANGED ingest

\* Line 220: the color of the device record as it is now.
ApiColor ==
    /\ rpc = "api_color"
    /\ r_i < Len(r_items)
    /\ r_color' = DictGet(discovered_devices, r_items[r_i + 1], [color |-> "Unknown"]).color
    /\ rpc' = "api_points"
    /\ UNCHANGED <<r_items, r_size, r_i, r_out, r_start>>
    /\ UNCHANGED ingest

\* Line 221: list(dq), a copy of the deque as it is now.
ApiPoints ==
    /\ rpc = "api_points"
    /\ r_out' = Append(r_out, [pid    |-> r_items[r_i + 1],
                               color  |-> r_color,
                               points |-> DictGet(history, r_items[r_i + 1], <<>>)])
    /\ r_i' = r_i + 1
    /\ rpc' = "api_color"
    /\ UNCHANGED <<r_items, r_size, r_color, r_start>>
    /\ UNCHANGED ingest

\* Line 223.
ApiReturn ==
    /\ rpc = "api_color"
    /\ r_i = Len(r_items)
    /\ rpc' = "idle"
    /\ r_items' = <<>>
    /\ r_size' = 0
    /\ r_i' = 0
    /\ r_color' = "-"
    /\ r_out' = <<>>
    /\ r_start' = <<>>
    /\ UNCHANGED ingest

----------------------------------------------------------------------------
(* The scanner, the delegate callback and a reader, running together *)

Next ==
    \/ Arrive
    \/ Tick
    \/ Discover
    \/ Upsert
    \/ HistEnter
    \/ HistAppend
    \/ CsvHeader
    \/ CsvFail
    \/ CsvTail
    \/ CsvWrite
    \/ PanelStart
    \/ PanelNext
    \/ PanelReturn
    \/ PanelError
    \/ ApiStart
    \/ ApiColor
    \/ ApiPoints
    \/ ApiReturn

Spec == Init /\ [][Next]_vars

\* The scanner and the delegate callback without a reader: the readers
\* write nothing the callback reads.
NextIngest ==
    \/ Arrive
    \/ Tick
    \/ Discover
    \/ Upsert
    \/ HistEnter
    \/ HistAppend
    \/ CsvHeader
    \/ CsvFail
    \/ CsvTail
    \/ CsvWrite

SpecIngest == Init /\ [][NextIngest]_vars

\* The same, started without a mead.csv.
InitFresh == Init /\ csv_file = NoFile

SpecFresh == InitFresh /\ [][NextIngest]_vars

\* The scanner, the delegate callback and print_panel, started without a
\* mead.csv.
NextPanel ==
    \/ NextIngest
    \/ PanelStart
    \/ PanelNext
    \/ PanelReturn
    \/ PanelError

SpecPanel == InitFresh /\ [][NextPanel]_vars

\* The same, started where the callback for FirstAd, run at time 0 without a
\* mead.csv and without a failure, has left the program; n_arrived counts
\* the advertisements that follow.
FirstAd ==
    [peripheral |-> "p1", kCBAdvDataManufacturerData |-> Some(BeaconA), RSSI |-> -60]

InitKnown ==
    LET info == parse_tilt_advertisement(BeaconA)
    IN  /\ pending = <<>>
        /\ n_arrived = 0
        /\ pc = "idle"
        /\ NoLocals
        /\ discovered_devices =
               upsert(<<>>, "p1", make_record(info, normalize_rssi(-60), BeaconA, 0))
        /\ history =
               <<<<"p1", <<history_sample(0, info.temperature_c, info.gravity)>>>>>>
        /\ history_lock = "free"
        /\ csv_lock = "free"
        /\ csv_file = File(<<HeaderLine, NL,
                             Row(csv_line(0, info.gravity, info.temperature_c)), NL>>)
        /\ now = 0
        /\ escaped = FALSE
        /\ ReaderIdle
        /\ appended = history
        /\ accepted = <<FirstAd>>
        /\ log_failed = FALSE
        /\ BleIdle
        /\ NoWorkers

SpecKnown == InitKnown /\ [][NextIngest]_vars

----------------------------------------------------------------------------
(* start_ble_scanner, tilt.py 356-379, called from the main thread of the   *)
(* dashboard (tilt_dashboard.py 226), and the delegate's state callback,    *)
(* tilt.py 206-220, which CoreBluetooth calls on the manager's queue.       *)
(* An object is a record; its id is the number of the call that made it,    *)
(* and a reference to it is that id.                                        *)

MaxStarts == 3

CBManagerStatePoweredOn == 5

CBManagerStates == 0..5

program == <<pending, n_arrived, pc, locals, shared, now, escaped, accepted,
             log_failed, reader, workers>>

\* Line 360: a call begins.
StartCall ==
    /\ spc = "idle"
    /\ n_starts < MaxStarts
    /\ n_starts' = n_starts + 1
    /\ spc' = "check"
    /\ UNCHANGED <<ble_started, delegate, manager, q, created, program>>

\* A version without the guard of lines 366-367.
StartCheckNoGuard ==
    /\ spc = "check"
    /\ spc' = "set"
    /\ UNCHANGED <<ble_started, delegate, manager, q, n_starts, created, program>>

\* Lines 366-367: if _ble_started: return
StartCheck ==
    /\ spc = "check"
    /\ spc' = IF ble_started THEN "idle" ELSE "set"
    /\ UNCHANGED <<ble_started, delegate, manager, q, n_starts, created, program>>

\* Line 368: _ble_started = True
StartSetFlag ==
    /\ spc = "set"
    /\ ble_started' = TRUE
    /\ spc' = "delegate"
    /\ UNCHANGED <<delegate, manager, q, n_starts, created, program>>

\* Line 370 (and 199-204): _delegate = CentralManagerDelegate.alloc().init()
StartDelegate ==
    /\ spc = "delegate"
    /\ delegate' = [id |-> n_starts, central |-> None]
    /\ created' = Append(created, [kind |-> "delegate", call |-> n_starts])
    /\ spc' = "queue"
    /\ UNCHANGED <<ble_started, manager, q, n_starts, program>>

\* Lines 373-377: a libdispatch queue, or None when dispatch cannot be used.
StartQueue ==
    /\ spc = "queue"
    /\ q' \in {Some("tilt.scanner"), None}
    /\ spc' = "manager"
    /\ UNCHANGED <<ble_started, delegate, manager, n_starts, created, program>>

\* Line 379: _manager = CBCentralManager...initWithDelegate_queue_options_(
\* _delegate, q, None); the function returns.
StartManager ==
    /\ spc = "manager"
    /\ manager' = [id |-> n_starts, delegate |-> delegate.id, queue |-> q,
                   state |-> 0, scanning |-> FALSE]
    /\ created' = Append(created, [kind |-> "manager", call |-> n_starts])
    /\ q' = None
    /\ spc' = "idle"
    /\ UNCHANGED <<ble_started, delegate, n_starts, program>>

\* Lines 206-220, centralManagerDidUpdateState_: Bluetooth reports a state;
\* when it is powered on the delegate keeps the manager and starts the scan.
DidUpdateState ==
    /\ manager # None
    /\ \E st \in CBManagerStates :
           /\ st # manager.state
           /\ manager' = [manager EXCEPT !.state = st,
                                         !.scanning = (st = CBManagerStatePoweredOn)]
           /\ delegate' = IF st = CBManagerStatePoweredOn
                          THEN [delegate EXCEPT !.central = Some(manager.id)]
                          ELSE delegate
    /\ UNCHANGED <<ble_started, spc, q, n_starts, created, program>>

NextBle ==
    \/ StartCall
    \/ StartCheck
    \/ StartSetFlag
    \/ StartDelegate
    \/ StartQueue
    \/ StartManager
    \/ DidUpdateState

SpecBle == InitFresh /\ [][NextBle]_vars

----------------------------------------------------------------------------
(* The decoder alone, applied to every input of DecodeInputs *)

InitDecode ==
    /\ pending = <<>>
    /\ n_arrived = 0
    /\ pc = "parse"
    /\ pid = "-"
    /\ data_bytes \in DecodeInputs
    /\ tilt_info = None
    /\ rssi_dbm = None
    /\ need_newline = FALSE
    /\ line = None
    /\ discovered_devices = <<>>
    /\ history = <<>>
    /\ history_lock = "free"
    /\ csv_lock = "free"
    /\ csv_file = NoFile
    /\ now = 0
    /\ escaped = FALSE
    /\ ReaderIdle
    /\ appended = <<>>
    /\ accepted = <<>>
    /\ log_failed = FALSE
    /\ BleIdle
    /\ NoWorkers

\* Line 234: tilt_info = parse_tilt_advertisement(data_bytes)
ParseCall ==
    /\ pc = "parse"
    /\ tilt_info' = parse_tilt_advertisement(data_bytes)
    /\ pc' = "parsed"
    /\ UNCHANGED <<pending, n_arrived, pid, data_bytes, rssi_dbm, need_newline,
                   line, shared, now, escaped, reader>>
    /\ UNCHANGED <<accepted, log_failed, ble, workers>>

SpecDecode == InitDecode /\ [][ParseCall]_vars

----------------------------------------------------------------------------
(* _append_history alone.  It starts where PreFill calls for "p1", two      *)
(* seconds apart, have left the program: three samples short of a full      *)
(* deque.  MaxCalls further calls for either device then fill it and        *)
(* overflow it.                                                             *)

MaxCalls == 5

PreFill == HistoryMaxLen - 3

PreFilled ==
    [i \in 1..PreFill |->
        LET info == parse_tilt_advertisement(IF i % 2 = 0 THEN BeaconA ELSE BeaconB)
        IN  history_sample(2000 * i, info.temperature_c, info.gravity)]

InitHist ==
    /\ pending = <<>>
    /\ n_arrived = 0
    /\ pc = "idle"
    /\ NoLocals
    /\ discovered_devices = <<>>
    /\ history = <<<<"p1", PreFilled>>>>
    /\ history_lock = "free"
    /\ csv_lock = "free"
    /\ csv_file = NoFile
    /\ now = 2000 * PreFill
    /\ escaped = FALSE
    /\ ReaderIdle
    /\ appended = <<<<"p1", PreFilled>>>>
    /\ accepted = <<>>
    /\ log_failed = FALSE
    /\ BleIdle
    /\ NoWorkers

\* Lines 269-271: _append_history(pid, temp_c, gravity), two seconds after
\* the call before.
CallAppendHistory ==
    /\ pc = "idle"
    /\ n_arrived < MaxCalls
    /\ n_arrived' = n_arrived + 1
    /\ \E p \in Pids, bs \in {BeaconA, BeaconB} :
           /\ pid' = p
           /\ tilt_info' = parse_tilt_advertisement(bs)
    /\ now' = now + 2000
    /\ pc' = "hist_enter"
    /\ UNCHANGED <<pending, data_bytes, rssi_dbm, need_newline, line,
                   shared, escaped, reader>>
    /\ UNCHANGED <<accepted, log_failed, ble, workers>>

\* _append_history returns to its caller.
HistReturn == HistAppendTo("returned")

\* The caller is done with the values it passed.
CallReturn ==
    /\ pc = "returned"
    /\ pc' = "idle"
    /\ ClearLocals
    /\ UNCHANGED <<pending, n_arrived, shared, now, escaped, reader>>
    /\ UNCHANGED <<accepted, log_failed, ble, workers>>

NextHist == CallAppendHistory \/ HistEnter \/ HistReturn \/ CallReturn

SpecHist == InitHist /\ [][NextHist]_vars

----------------------------------------------------------------------------
(* The callback's body, tilt.py 229-278, entered by several threads at      *)
(* once: the locks of _append_history, ensure_csv_header and                *)
(* append_to_mead_csv are what keeps such calls apart.  workers[w] holds     *)
(* the position and the locals of thread w; a lock's holder is the thread's  *)
(* name.  The clock stands still.                                            *)

\* An advertisement without manufacturer data, and two payloads of "p1".
WorkerAds ==
    {[peripheral |-> "p1", kCBAdvDataManufacturerData |-> None, RSSI |-> -60],
     FirstAd,
     [peripheral |-> "p1", kCBAdvDataManufacturerData |-> Some(BeaconB), RSSI |-> -60]}

\* What no thread of this section writes.
serial == <<pending, pc, locals, now, escaped, reader, ble>>

\* Lines 229-255: decode; an advertisement that is not a Tilt's is dropped.
WStart(w) ==
    /\ workers[w].pc = "idle"
    /\ n_arrived < MaxAds
    /\ n_arrived' = n_arrived + 1
    /\ \E ad \in WorkerAds :
           LET m == ad.kCBAdvDataManufacturerData
           IN  IF not_manufacturer_data(m) \/ parse_tilt_advertisement(m.some) = None
               THEN UNCHANGED <<workers, accepted>>
               ELSE /\ workers' = [workers EXCEPT ![w] =
                                      [pc |-> "upsert", ad |-> ad,
                                       tilt_info |-> parse_tilt_advertisement(m.some),
                                       need_newline |-> FALSE, line |-> None]]
                    /\ accepted' = Append(accepted, ad)
    /\ UNCHANGED <<serial, shared, log_failed>>

\* Lines 256-268.
WUpsert(w) ==
    /\ workers[w].pc = "upsert"
    /\ discovered_devices' =
           upsert(discovered_devices, workers[w].ad.peripheral,
                  make_record(workers[w].tilt_info, normalize_rssi(workers[w].ad.RSSI),
                              workers[w].ad.kCBAdvDataManufacturerData.some, now))
    /\ workers' = [workers EXCEPT ![w].pc = "hist_enter"]
    /\ UNCHANGED <<serial, n_arrived, history, history_lock, csv_lock, csv_file,
                   appended, accepted, log_failed>>

\* Lines 49-53: with _history_lock waits until the lock is free.
WHistEnter(w) ==
    /\ workers[w].pc = "hist_enter"
    /\ history_lock = "free"
    /\ history_lock' = w
    /\ history' = IF DictHas(history, workers[w].ad.peripheral)
                  THEN history
                  ELSE DictSet(history, workers[w].ad.peripheral, <<>>)
    /\ workers' = [workers EXCEPT ![w].pc = "hist_append"]
    /\ UNCHANGED <<serial, n_arrived, discovered_devices, csv_lock, csv_file,
                   appended, accepted, log_failed>>

\* Lines 54-58: append the sample; leaving the with block releases the lock.
WHistAppend(w) ==
    /\ workers[w].pc = "hist_append"
    /\ history_lock = w
    /\ LET k == workers[w].ad.peripheral
           sample == history_sample(now, workers[w].tilt_info.temperature_c, workers[w].tilt_info.gravity)
       IN  /\ history' = DictSet(history, k, deque_append(DictGet(history, k, <<>>), sample))
           /\ appended' = DictSet(appended, k, Append(DictGet(appended, k, <<>>), sample))
    /\ history_lock' = "free"
    /\ workers' = [workers EXCEPT ![w].pc = "header_enter"]
    /\ UNCHANGED <<serial, n_arrived, discovered_devices, csv_lock, csv_file,
                   accepted, log_failed>>

\* Lines 275-276, 303 and 289: ensure_csv_header waits for _csv_lock.
WHeaderEnter(w) ==
    /\ workers[w].pc = "header_enter"
    /\ csv_lock = "free"
    /\ csv_lock' = w
    /\ workers' = [workers EXCEPT ![w].pc = "header_write"]
    /\ UNCHANGED <<serial, n_arrived, discovered_devices, history, history_lock,
                   csv_file, appended, accepted, log_failed>>

\* ensure_csv_header written with _csv_lock.acquire() and no release: the
\* caller still holds the lock when it goes on.
WHeaderWriteKeepsLock(w) ==
    /\ workers[w].pc = "header_write"
    /\ csv_lock = w
    /\ csv_file' = IF csv_file.exists THEN csv_file ELSE File(<<HeaderLine, NL>>)
    /\ workers' = [workers EXCEPT
                      ![w].pc = "csv_tail",
                      ![w].line = csv_line(now, workers[w].tilt_info.gravity, workers[w].tilt_info.temperature_c)]
    /\ UNCHANGED <<serial, n_arrived, discovered_devices, history, history_lock,
                   csv_lock, appended, accepted, log_failed>>

\* Lines 290-292 and 304: write the header if the file is missing; leaving
\* the with block releases the lock; the caller formats its line.
WHeaderWrite(w) ==
    /\ workers[w].pc = "header_write"
    /\ csv_lock = w
    /\ csv_file' = IF csv_file.exists THEN csv_file ELSE File(<<HeaderLine, NL>>)
    /\ csv_lock' = "free"
    /\ workers' = [workers EXCEPT
                      ![w].pc = "csv_tail",
                      ![w].line = csv_line(now, workers[w].tilt_info.gravity, workers[w].tilt_info.temperature_c)]
    /\ UNCHANGED <<serial, n_arrived, discovered_devices, history, history_lock,
                   appended, accepted, log_failed>>

\* Lines 291-292 or 321-324 raise: the with block the thread is in releases
\* the lock, lines 325-327 print and the callback returns.
WCsvFail(w) ==
    /\ \/ /\ workers[w].pc = "header_write" /\ ~csv_file.exists
          /\ csv_file' \in {csv_file, File(<<>>)}
       \/ /\ workers[w].pc = "csv_write"
          /\ csv_file' = csv_file
    /\ csv_lock = w
    /\ csv_lock' = "free"
    /\ workers' = [workers EXCEPT ![w] = IdleWorker]
    /\ log_failed' = TRUE
    /\ UNCHANGED <<serial, n_arrived, discovered_devices, history, history_lock,
                   appended, accepted>>

\* Lines 305-319: append_to_mead_csv waits for _csv_lock and looks at the
\* last byte of the file; a failure to read it is swallowed.
WCsvTail(w) ==
    /\ workers[w].pc = "csv_tail"
    /\ csv_lock = "free"
    /\ csv_lock' = w
    /\ \/ /\ workers' = [workers EXCEPT
                            ![w].pc = "csv_write",
                            ![w].need_newline =
                                (Len(csv_file.content) > 0 /\ ~last_is_newline(csv_file))]
          /\ UNCHANGED log_failed
       \/ /\ workers' = [workers EXCEPT ![w].pc = "csv_write"]
          /\ log_failed' = TRUE
    /\ UNCHANGED <<serial, n_arrived, discovered_devices, history, history_lock,
                   csv_file, appended, accepted>>

\* Lines 321-324: append the line; leaving the with block releases the lock.
WCsvWrite(w) ==
    /\ workers[w].pc = "csv_write"
    /\ csv_lock = w
    /\ csv_file' = File(csv_file.content
                        \o (IF workers[w].need_newline THEN <<NL>> ELSE <<>>)
                        \o <<Row(workers[w].line), NL>>)
    /\ csv_lock' = "free"
    /\ workers' = [workers EXCEPT ![w] = IdleWorker]
    /\ UNCHANGED <<serial, n_arrived, discovered_devices, history, history_lock,
                   appended, accepted, log_failed>>

\* A step of thread w inside the callback's body.
WorkerStep(w) ==
    \/ WUpsert(w)
    \/ WHistEnter(w)
    \/ WHistAppend(w)
    \/ WHeaderEnter(w)
    \/ WHeaderWrite(w)
    \/ WCsvFail(w)
    \/ WCsvTail(w)
    \/ WCsvWrite(w)

\* The threads together.
NextLocks ==
    \/ \E w \in Threads : WStart(w)
    \/ \E w \in Threads : WUpsert(w)
    \/ \E w \in Threads : WHistEnter(w)
    \/ \E w \in Threads : WHistAppend(w)
    \/ \E w \in Threads : WHeaderEnter(w)
    \/ \E w \in Threads : WHeaderWrite(w)
    \/ \E w \in Threads : WCsvFail(w)
    \/ \E w \in Threads : WCsvTail(w)
    \/ \E w \in Threads : WCsvWrite(w)

\* A thread that can take a step is scheduled in the end; no more is asked
\* of the locks than that a free lock can be taken.
SpecLocks ==
    Init /\ [][NextLocks]_vars /\ \A w \in Threads : WF_vars(WorkerStep(w))

----------------------------------------------------------------------------
(* Properties of the decoder, checked under SpecDecode *)

HasBeaconPrefix(bs) ==
    Len(bs) >= 4 /\ bs[1] = 76 /\ bs[2] = 0 /\ bs[3] = 2 /\ bs[4] = 21

Decodable(bs) == Len(bs) >= 25 /\ HasBeaconPrefix(bs)

\* C1: the decoder returns a reading if and only if the payload has at least
\* 25 bytes and starts with 4C 00 02 15; shorter payloads and payloads with
\* any other prefix give None, and no other byte decides acceptance.
C1_AcceptIffLengthAndPrefix ==
    pc = "parsed" => ((tilt_info # None) <=> Decodable(data_bytes))

\* A payload of sufficient length whose fourth byte alone is wrong has been
\* rejected.
C1_Witness ==
    /\ pc = "parsed"
    /\ tilt_info = None
    /\ Len(data_bytes) >= 25
    /\ SubSeq(data_bytes, 1, 3) = <<76, 0, 2>>

\* C2: for an accepted payload, battery_weeks is the tx byte when that byte
\* is in 0..152 and is not 0xC5, and None for every other tx byte.
C2_BatteryWeeks ==
    (pc = "parsed" /\ tilt_info # None) =>
        LET tx == data_bytes[25]
        IN  tilt_info.battery_weeks =
                (IF tx \in 0..152 /\ tx # 197 THEN Some(tx) ELSE None)

\* An accepted payload whose tx byte is just above the range, and so has no
\* battery weeks.
C2_Witness ==
    /\ pc = "parsed"
    /\ tilt_info # None
    /\ data_bytes[25] = 153
    /\ tilt_info.battery_weeks = None

KnownTokenIndex(token) == {i \in 1..8 : token = TiltUuid(i)}

\* C3: for every payload of sufficient length and right prefix the decoder
\* returns a reading whose color is the table's color for the identity token
\* in bytes 4..19 when it is one of the 8 known tokens, and "Unknown" for
\* every other token: an unknown token is never rejected.
C3_ColorOfToken ==
    (pc = "parsed" /\ Decodable(data_bytes)) =>
        /\ tilt_info # None
        /\ LET known == KnownTokenIndex(SubSeq(data_bytes, 5, 20))
           IN  tilt_info.color =
                   (IF known # {} THEN TiltColors[CHOOSE i \in known : TRUE]
                    ELSE "Unknown")

\* The token of the pink Tilt has been decoded to "Pink".
C3_Witness ==
    /\ pc = "parsed"
    /\ tilt_info # None
    /\ SubSeq(data_bytes, 5, 20) = TiltUuid(8)
    /\ tilt_info.color = "Pink"

\* C21: for every accepted payload, temperature is the unsigned 16-bit
\* number whose high byte is byte 20 and whose low byte is byte 21, whatever
\* its value; gravity is the thousandth of the number made the same way of
\* bytes 22 and 23; tx_raw is byte 24, in 0..255; and tx_dbm is the number of
\* -128..127 that differs from tx_raw by a multiple of 256.
C21_NumbersOfThePayload ==
    (pc = "parsed" /\ tilt_info # None) =>
        /\ tilt_info.temperature \in 0..65535
        /\ tilt_info.temperature \div 256 = data_bytes[21]
        /\ tilt_info.temperature % 256 = data_bytes[22]
        /\ tilt_info.gravity.den = 1000
        /\ tilt_info.gravity.num \in 0..65535
        /\ tilt_info.gravity.num \div 256 = data_bytes[23]
        /\ tilt_info.gravity.num % 256 = data_bytes[24]
        /\ tilt_info.tx_raw = data_bytes[25]
        /\ tilt_info.tx_raw \in 0..255
        /\ tilt_info.tx_dbm \in -128..127
        /\ (tilt_info.tx_dbm - tilt_info.tx_raw) % 256 = 0
        /\ tilt_info.tx_dbm = (IF tilt_info.tx_raw < 128 THEN tilt_info.tx_raw
                               ELSE tilt_info.tx_raw - 256)

\* A payload with the largest temperature, a gravity of 1.000 and the tx byte
\* 0x80 has been accepted: 65535 F, and a tx power of -128.
C21_Witness ==
    /\ pc = "parsed"
    /\ tilt_info # None
    /\ SubSeq(data_bytes, 21, 25) = <<255, 255, 3, 232, 128>>
    /\ tilt_info.temperature = 65535
    /\ tilt_info.gravity = Frac(1000, 1000)
    /\ tilt_info.tx_dbm = -128

----------------------------------------------------------------------------
(* Properties of the history buffer, checked under SpecHist *)

LastN(all, n) == SubSeq(all, IF Len(all) > n THEN Len(all) - n + 1 ELSE 1, Len(all))

\* C4: a device's history never holds more than 3600 samples, and it holds
\* exactly the most recently appended samples (all of them up to 3600, the
\* last 3600 beyond that) in append order, oldest first.
C4_HistoryIsMostRecent ==
    \A i \in 1..Len(history) :
        LET dq == history[i][2]
        IN  /\ Len(dq) <= 3600
            /\ dq = LastN(DictGet(appended, history[i][1], <<>>), 3600)

\* More samples than the buffer holds have been appended for "p1", and the
\* oldest one kept is not the first one appended.
C4_Witness ==
    /\ pc = "idle"
    /\ Len(DictGet(appended, "p1", <<>>)) > 3600
    /\ Len(DictGet(history, "p1", <<>>)) = 3600
    /\ DictGet(history, "p1", <<>>)[1] # DictGet(appended, "p1", <<>>)[1]

----------------------------------------------------------------------------
(* Properties of the ingest callback and the readers, checked under Spec  *)
(* (C6 under SpecPanel; C8 and C9, which no reader takes part in, under    *)
(* SpecIngest)                                                             *)

Last(sq) == sq[Len(sq)]

\* C5: the device record and the history always agree, device by device:
\* every device of the table has a history whose newest sample carries the
\* temperature and gravity of its record, and every history belongs to a
\* device of the table.  The readers take no lock, so every state between
\* two steps of the callback is one they can observe.
C5_RecordAndHistoryAgree ==
    /\ \A i \in 1..Len(discovered_devices) :
           LET rec == discovered_devices[i][2]
               dq  == DictGet(history, discovered_devices[i][1], <<>>)
           IN  /\ dq # <<>>
               /\ Last(dq).temp_c = rec.temperature_c
               /\ Last(dq).gravity = rec.gravity
    /\ \A i \in 1..Len(history) : DictHas(discovered_devices, history[i][1])

AcceptedAds ==
    {ad \in Advertisements :
        /\ ad.kCBAdvDataManufacturerData # None
        /\ Decodable(ad.kCBAdvDataManufacturerData.some)}

\* The device and the record line 257 makes, at time 0, of each accepted
\* advertisement.
AcceptedRecords ==
    {<<ad.peripheral,
       make_record(parse_tilt_advertisement(ad.kCBAdvDataManufacturerData.some),
                   normalize_rssi(ad.RSSI), ad.kCBAdvDataManufacturerData.some, 0)>> :
        ad \in AcceptedAds}

\* rec is the record line 257 makes from one accepted advertisement of
\* device p at some instant up to now.
FromOneAdvertisement(p, rec) ==
    /\ \E k \in 0..(now \div 1000) :
           rec.last_seen = strftime("%Y-%m-%d %H:%M:%S", 1000 * k)
    /\ \E pr \in AcceptedRecords :
           /\ pr[1] = p
           /\ [rec EXCEPT !.last_seen = pr[2].last_seen] = pr[2]

\* C6: every record in the device table, and every record a reader has
\* obtained from it, equals field for field the record made from one
\* accepted advertisement of that device.
C6_RecordFromOneAdvertisement ==
    /\ \A i \in 1..Len(discovered_devices) :
           FromOneAdvertisement(discovered_devices[i][1], discovered_devices[i][2])
    /\ rpc = "panel" =>
           \A i \in 1..Len(r_out) : FromOneAdvertisement(r_out[i][1], r_out[i][2])

\* The reader holds the record of an earlier advertisement of a device whose
\* record has been replaced, with another color, while the reader iterates.
C6_Witness ==
    /\ rpc = "panel"
    /\ r_out # <<>>
    /\ DictHas(discovered_devices, r_out[1][1])
    /\ DictGet(discovered_devices, r_out[1][1], None).color # r_out[1][2].color

\* C7: the devices that have a history buffer are exactly the devices of the
\* device table, in every state a reader can observe.
C7_HistoryKeysAreDeviceKeys ==
    DictKeys(history) = DictKeys(discovered_devices)

RejectedAd(ad) ==
    \/ ad.kCBAdvDataManufacturerData = None
    \/ ~Decodable(ad.kCBAdvDataManufacturerData.some)

RECURSIVE TotalLen(_)
TotalLen(d) == IF d = <<>> THEN 0 ELSE Len(Head(d)[2]) + TotalLen(Tail(d))

\* C8: the callback for an advertisement without manufacturer data, or with
\* a payload that is too short or has the wrong prefix, returns without
\* changing the device table, any history or the log file, and without an
\* exception.
C8_RejectedChangesNothing ==
    [][(/\ pc = "idle"
        /\ pending # <<>>
        /\ pending' = Tail(pending)
        /\ RejectedAd(Head(pending)))
       => (/\ UNCHANGED <<discovered_devices, history, csv_file>>
           /\ pc' = "idle"
           /\ escaped' = FALSE)]_vars

\* Two advertisements have been handled and one of them left no trace: one
\* device, one sample.
C8_Witness ==
    /\ n_arrived = 2
    /\ pending = <<>>
    /\ pc = "idle"
    /\ Len(discovered_devices) = 1
    /\ TotalLen(appended) = 1

\* A step of the callback that leaves the log phase without having written.
LogFailureStep ==
    /\ pc \in {"csv_header", "csv_write"}
    /\ pc' \notin {pc, "csv_tail"}
    /\ csv_file' \in {csv_file, File(<<>>)}

\* C9: when the log append fails, the device record and the history sample of
\* the advertisement stay, the callback returns normally with the log lock
\* released, ready for the next advertisement, and no exception ever leaves
\* the callback.
C9_LogFailureKeepsRegistry ==
    /\ [](escaped = FALSE)
    /\ [][LogFailureStep
          => (/\ UNCHANGED <<discovered_devices, history>>
              /\ DictHas(discovered_devices, pid)
              /\ DictGet(history, pid, <<>>) # <<>>
              /\ pc' = "idle"
              /\ csv_lock' = "free"
              /\ history_lock' = "free")]_vars

Rows(f) == IF f.exists THEN SelectSeq(f.content, LAMBDA e : e # NL /\ e # HeaderLine) ELSE <<>>

\* Two advertisements have been ingested into the table and the history
\* although the log append failed for both: the second one came after a
\* failure.
C9_Witness ==
    /\ n_arrived = 2
    /\ pending = <<>>
    /\ pc = "idle"
    /\ TotalLen(history) = 2
    /\ Rows(csv_file) = <<>>

\* C10: while the log append of one advertisement is in progress, the
\* callback for a waiting advertisement of another device can start, so that
\* it reaches the device table without waiting for the log.
C10_LogDoesNotGateIngest ==
    (/\ pc \in {"csv_header", "csv_tail", "csv_write"}
     /\ pending # <<>>
     /\ Head(pending).peripheral # pid
     /\ ~RejectedAd(Head(pending)))
    => ENABLED Discover

----------------------------------------------------------------------------
(* Properties of the log file, checked under Spec *)

IsRow(e) == "row" \in DOMAIN e

\* C11: every reading in mead.csv is on a line of its own: it starts the file
\* or follows a newline, and a newline follows it, whatever the file ended
\* with before the append and whether or not the tail of the file could be
\* read.
C11_ReadingOnOwnLine ==
    csv_file.exists =>
        \A i \in 1..Len(csv_file.content) :
            IsRow(csv_file.content[i]) =>
                /\ i = 1 \/ csv_file.content[i - 1] = NL
                /\ i < Len(csv_file.content)
                /\ csv_file.content[i + 1] = NL

\* C15: a mead.csv that did not exist when the program started begins with
\* the header line, once, and holds reading lines only after it: the header
\* is written when the file is absent and an existing file is not given
\* another one.  Checked under SpecFresh.
C15_HeaderThenReadings ==
    csv_file.exists =>
        /\ Len(csv_file.content) >= 2
        /\ csv_file.content[1] = HeaderLine
        /\ csv_file.content[2] = NL
        /\ \A i \in 3..Len(csv_file.content) :
               IF i % 2 = 1 THEN IsRow(csv_file.content[i])
               ELSE csv_file.content[i] = NL

----------------------------------------------------------------------------
(* Properties of the presentation readers, checked under Spec *)

\* C12: what a reader is handed is a copy made at one instant, the one at
\* which the read began: print_panel and the dashboard index never fail and
\* the rows they have produced are the rows the device table had then, and
\* the points api_history has produced for a device are the samples its
\* history had then, whatever has been ingested since.
C12_ReadsArePointInTimeCopies ==
    /\ rpc # "error"
    /\ rpc = "panel" => r_out = SubSeq(r_start, 1, r_i)
    /\ rpc \in {"api_color", "api_points"} =>
           \A i \in 1..Len(r_out) :
               r_out[i].points = DictGet(r_start, r_out[i].pid, <<>>)

----------------------------------------------------------------------------
(* Properties of the delegate callback, checked under SpecIngest *)

AcceptedOf(p) == SelectSeq(accepted, LAMBDA ad : ad.peripheral = p)

\* The advertisement of device p that line 257 has stored last: the latest
\* accepted one, or the one before it while the callback has yet to store.
StoredAd(p) ==
    LET ads == AcceptedOf(p)
    IN  ads[IF pc = "upsert" /\ pid = p THEN Len(ads) - 1 ELSE Len(ads)]

\* C13: the record of every device holds exactly the values of the latest
\* advertisement stored for it (color, temperature in F and in C, gravity,
\* battery weeks, tx power, signal strength, raw hex), and no field of an
\* earlier advertisement of that device.
C13_RecordIsLatestAdvertisement ==
    \A i \in 1..Len(discovered_devices) :
        LET rec  == discovered_devices[i][2]
            ad   == StoredAd(discovered_devices[i][1])
            bs   == ad.kCBAdvDataManufacturerData.some
            info == parse_tilt_advertisement(bs)
        IN  /\ rec.color = info.color
            /\ rec.temperature = info.temperature
            /\ rec.temperature_c = info.temperature_c
            /\ rec.gravity = info.gravity
            /\ rec.battery_weeks = info.battery_weeks
            /\ rec.tx_raw = info.tx_raw
            /\ rec.tx_dbm = info.tx_dbm
            /\ rec.rssi = (IF ad.RSSI = 127 THEN None ELSE Some(ad.RSSI))
            /\ rec.raw_hex = hexlify(bs)

\* Two advertisements of one device with different payloads have been
\* accepted and stored, and the record has the color of the second.
C13_Witness ==
    /\ pc = "idle"
    /\ Len(accepted) = 2
    /\ accepted[1].peripheral = accepted[2].peripheral
    /\ accepted[1].kCBAdvDataManufacturerData # accepted[2].kCBAdvDataManufacturerData
    /\ DictGet(discovered_devices, accepted[2].peripheral, None).color
           = parse_tilt_advertisement(accepted[2].kCBAdvDataManufacturerData.some).color

\* C14: the signal strength in every device record is absent when the RSSI
\* of the advertisement stored for the device is 127, and is that RSSI
\* otherwise; neither a record nor the callback ever holds 127 as a signal
\* strength.
C14_SignalStrengthNormalized ==
    /\ rssi_dbm # Some(127)
    /\ \A i \in 1..Len(discovered_devices) :
           LET rec == discovered_devices[i][2]
               raw == StoredAd(discovered_devices[i][1]).RSSI
           IN  /\ rec.rssi # Some(127)
               /\ raw = 127 => rec.rssi = None
               /\ raw # 127 => rec.rssi = Some(raw)

\* An advertisement with RSSI 127 has been accepted and stored, and the
\* record of its device has no signal strength.
C14_Witness ==
    /\ pc = "idle"
    /\ accepted # <<>>
    /\ Last(accepted).RSSI = 127
    /\ DictGet(discovered_devices, Last(accepted).peripheral, [rssi |-> 0]).rssi = None

Settled(p) == ~(pid = p /\ pc \in {"upsert", "hist_enter", "hist_append"})

\* C18: for every device of the table whose advertisements have all been
\* carried through, one sample has been appended per accepted advertisement,
\* and the newest one carries the temperature in C and the gravity of the
\* device record and was taken at the record's last_seen, to the second that
\* last_seen keeps.
C18_OneSamplePerAdvertisement ==
    \A i \in 1..Len(discovered_devices) :
        LET p   == discovered_devices[i][1]
            rec == discovered_devices[i][2]
            all == DictGet(appended, p, <<>>)
        IN  Settled(p) =>
                /\ Len(all) = Len(AcceptedOf(p))
                /\ Last(all).temp_c = rec.temperature_c
                /\ Last(all).gravity = rec.gravity
                /\ strftime("%Y-%m-%d %H:%M:%S", Last(all).ts) = rec.last_seen

\* The advertisements whose callback has come to its end.
Handled == SubSeq(accepted, 1, Len(accepted) - (IF pc = "idle" THEN 0 ELSE 1))

\* The lines of the file that hold one reading and nothing else, in order.
ReadingLines(f) ==
    LET c   == f.content
        own == SelectSeq([i \in 1..Len(c) |-> i],
                         LAMBDA i : /\ IsRow(c[i])
                                    /\ i = 1 \/ c[i - 1] = NL
                                    /\ i = Len(c) \/ c[i + 1] = NL)
    IN  IF f.exists THEN [k \in 1..Len(own) |-> c[own[k]]] ELSE <<>>

\* C19: as long as no read or write of mead.csv has failed, the file holds one
\* reading line for each accepted advertisement whose callback has come to
\* its end, and none for a rejected one: the n-th reading line has the
\* gravity and the temperature of the n-th accepted advertisement.
C19_OneLinePerAcceptedAdvertisement ==
    ~log_failed =>
        /\ Len(ReadingLines(csv_file)) = Len(Handled)
        /\ \A i \in 1..Len(Handled) :
               LET info == parse_tilt_advertisement(Handled[i].kCBAdvDataManufacturerData.some)
                   r    == ReadingLines(csv_file)[i].row
               IN  /\ r.sg = format_fixed(info.gravity, 3)
                   /\ r.temp = format_fixed(info.temperature_c, 1)

\* Two advertisements with different readings have been accepted and logged
\* without a failure: the file has two reading lines, which differ.
C19_Witness ==
    /\ pc = "idle"
    /\ ~log_failed
    /\ Len(accepted) = 2
    /\ Len(ReadingLines(csv_file)) = 2
    /\ ReadingLines(csv_file)[1].row.sg # ReadingLines(csv_file)[2].row.sg

\* The accepted advertisements that line 257 has stored.
Stored == SubSeq(accepted, 1, Len(accepted) - (IF pc = "upsert" THEN 1 ELSE 0))

RECURSIVE FirstSeen(_)
\* The devices of a sequence of advertisements, each once, in the order of
\* their first advertisement.
FirstSeen(ads) ==
    IF ads = <<>> THEN <<>>
    ELSE LET before == FirstSeen(SubSeq(ads, 1, Len(ads) - 1))
             p      == ads[Len(ads)].peripheral
         IN  IF \E i \in 1..Len(before) : before[i] = p THEN before
             ELSE Append(before, p)

\* C20: the devices of the table, in its iteration order, are the devices of
\* all the advertisements stored so far, in the order in which each was
\* first accepted: no device is ever removed, and the update of a known
\* device leaves the order as it is.  Checked under SpecKnown.
C20_DevicesInFirstSeenOrder ==
    [i \in 1..Len(discovered_devices) |-> discovered_devices[i][1]] = FirstSeen(Stored)

\* A second device has been added and the first one has then been updated
\* with another payload: the first is still first.
C20_Witness ==
    /\ pc = "idle"
    /\ Len(accepted) = 3
    /\ accepted[2].peripheral = "p2"
    /\ accepted[3].peripheral = "p1"
    /\ Len(discovered_devices) = 2
    /\ discovered_devices[1][1] = "p1"
    /\ discovered_devices[1][2].color = "Unknown"

----------------------------------------------------------------------------
(* Properties of start_ble_scanner, checked under SpecBle *)

CreatedOf(kind) == SelectSeq(created, LAMBDA c : c.kind = kind)

\* C17: over any number of calls of start_ble_scanner at most one delegate
\* and one central manager are created, both by the first call; once the
\* first call has returned there is exactly one of each, _delegate and
\* _manager are those two objects, and no later call creates or replaces
\* one.
C17_StartOnce ==
    /\ \A i \in 1..Len(created) : created[i].call = 1
    /\ Len(CreatedOf("delegate")) <= 1
    /\ Len(CreatedOf("manager")) <= 1
    /\ (n_starts >= 2 \/ (n_starts = 1 /\ spc = "idle")) =>
           /\ ble_started
           /\ Len(CreatedOf("delegate")) = 1
           /\ Len(CreatedOf("manager")) = 1
           /\ delegate # None /\ delegate.id = 1
           /\ manager # None /\ manager.id = 1 /\ manager.delegate = 1

\* The third call has returned, the scan is running, and there are still
\* only the two objects of the first call.
C17_Witness ==
    /\ n_starts = 3
    /\ spc = "idle"
    /\ Len(created) = 2
    /\ manager # None
    /\ manager.scanning

----------------------------------------------------------------------------
(* Properties of the locks, checked under SpecLocks *)

\* The locks thread w holds.
Holds(w) ==
    (IF history_lock = w THEN {"_history_lock"} ELSE {})
        \cup (IF csv_lock = w THEN {"_csv_lock"} ELSE {})

\* The locks the with block thread w is in has taken.
InWith(w) ==
    CASE workers[w].pc = "hist_append" -> {"_history_lock"}
      [] workers[w].pc \in {"header_write", "csv_write"} -> {"_csv_lock"}
      [] OTHER -> {}

\* C22: with several ingest calls running at once, a call holds exactly the
\* lock of the with block it is in: none when it is outside (so
\* ensure_csv_header has released _csv_lock when append_to_mead_csv asks
\* for it, and a call that returned, failed write or not, has released
\* everything), and never both; and every call that has started returns.
C22_NoCallBlocksForever ==
    /\ [](\A w \in Threads : Holds(w) = InWith(w) /\ Cardinality(Holds(w)) <= 1)
    /\ \A w \in Threads : (workers[w].pc # "idle") ~> (workers[w].pc = "idle")

\* One call waits for _csv_lock, which it has held and released in
\* ensure_csv_header, while another call, inside append_to_mead_csv, holds it.
C22_Witness ==
    /\ workers["t1"].pc = "csv_tail"
    /\ workers["t2"].pc = "csv_write"
    /\ csv_lock = "t2"

====
